---- MODULE Spec2Model ----
(***************************************************************************)
(* Model of src/index.ts: a three.js scene in which a sphere bounces along *)
(* the x axis and is classified, every animation frame, against an         *)
(* oriented bounding box (OBB) attached to a loaded glTF model.            *)
(*                                                                         *)
(* Numbers.  Every length of the program that the model computes with is a *)
(* multiple of 0.5 (xPosition starts at 0 and moves by 0.5; the bounds are *)
(* +-150; sphere.position.y is 30; the radius is 1).  Such values and      *)
(* their sums are exact in IEEE doubles, so the model counts lengths in    *)
(* HALF UNITS: the integer n stands for the double n/2.  Angles are        *)
(* counted in increments of 0.001 radian: the integer n stands for the     *)
(* angle reached after n additions of 0.001.                               *)
(*                                                                         *)
(* Rotations.  The entries of a rotation by 0.001 rad are irrational, so a *)
(* rotation matrix is kept symbolically as the sequence of its factors,    *)
(* each factor an Euler triple <<a, b, c>> standing for the matrix         *)
(* Rx(a).Ry(b).Rz(c) (three.js' default order 'XYZ'); the product of two   *)
(* matrices is the concatenation of their factors and the identity is the  *)
(* empty sequence.                                                         *)
(*                                                                         *)
(* Event loop.  JavaScript runs every task to completion, so each action   *)
(* below is one task: the synchronous part of the script up to its first   *)
(* await, the delivery of the loader's callback, one animation frame, one  *)
(* resize event.                                                           *)
(*                                                                         *)
(* lastTask names the task of the script that ran last (none before the     *)
(* script has reached its first await); the environment's WindowResize is  *)
(* not a task of the script.                                               *)
(*                                                                         *)
(* The material colour of the sphere (index.ts 225-229) is the value of    *)
(* intersectsSphere on the real-valued box of the frame; it is write-only  *)
(* and is studied as a function in SpecIntersect, on boxes whose rotation  *)
(* has integer entries.                                                    *)
(***************************************************************************)
EXTENDS Integers, Sequences, FiniteSets, TLC

VARIABLES pc, loader, loadCalls, consoleLog, onresize,
          innerWidth, innerHeight, pendingResize, resizeError,
          camera, renderer, xPosition, speed, sphere, modelGroup, ticks,
          lastTask, box, ball, verdict

vars == <<pc, loader, loadCalls, consoleLog, onresize,
          innerWidth, innerHeight, pendingResize, resizeError,
          camera, renderer, xPosition, speed, sphere, modelGroup, ticks,
          lastTask, box, ball, verdict>>

sceneVars == <<pc, loader, loadCalls, consoleLog, onresize,
               innerWidth, innerHeight, pendingResize, resizeError,
               camera, renderer, xPosition, speed, sphere, modelGroup, ticks,
               lastTask>>

probeVars == <<box, ball, verdict>>

----------------------------------------------------------------------------
(* Bounds of the model *)

\* number of animation frames explored
MaxTicks == 910
\* widest window delivered by the environment
MaxWidth == 2
\* largest z coordinate (half units) and radius (half units) of a probed sphere
MaxCoord == 13
MaxRadius == 3

----------------------------------------------------------------------------
(* Values that may be undefined: a `let` that has not been assigned yet *)

Undefined == <<>>
Some(v) == <<v>>
Defined(o) == o # <<>>
Get(o) == o[1]

----------------------------------------------------------------------------
(* Vectors *)

Zero3 == <<0, 0, 0>>
One3 == <<1, 1, 1>>
Add3(a, b) == <<a[1] + b[1], a[2] + b[2], a[3] + b[3]>>
Sub3(a, b) == <<a[1] - b[1], a[2] - b[2], a[3] - b[3]>>
Scale3(a, k) == <<a[1] * k, a[2] * k, a[3] * k>>
Mul3(a, b) == <<a[1] * b[1], a[2] * b[2], a[3] * b[3]>>
Dot3(a, b) == a[1] * b[1] + a[2] * b[2] + a[3] * b[3]
DistanceToSquared(a, b) == Dot3(Sub3(a, b), Sub3(a, b))

----------------------------------------------------------------------------
(* Rotations of the scene, kept as sequences of Euler factors *)

\* three.js Matrix4/Matrix3 identity
IdentityRotation == <<>>

\* Matrix multiplication a.b of two rotations; identity factors vanish
MultiplyRotation(a, b) == SelectSeq(a \o b, LAMBDA f : f # Zero3)

\* Matrix4.makeRotationAxis(axis, angle), axis one of the unit vectors:
\* SETS every element of the matrix m, whatever it held before
makeRotationAxis(m, axis, angle) == MultiplyRotation(IdentityRotation, <<Scale3(axis, angle)>>)

\* Matrix3.setFromMatrix4: the upper-left 3x3 block, here the rotation itself
setFromMatrix4(m4) == m4

\* index.ts 189-199: one Matrix4, made a rotation about X, then Y, then Z
rotationMatrix4 ==
    LET m0 == IdentityRotation
        m1 == makeRotationAxis(m0, <<1, 0, 0>>, 1)
        m2 == makeRotationAxis(m1, <<0, 1, 0>>, 1)
        m3 == makeRotationAxis(m2, <<0, 0, 1>>, 1)
    IN  m3

\* index.ts 201-202
rotationMatrix3 == setFromMatrix4(rotationMatrix4)

\* Object3D.updateMatrixWorld for a child of the scene root: the world matrix
\* composed from the object's position, Euler rotation (order XYZ) and scale
ComposeMatrixWorld(position, rotation, scale) ==
    [position |-> position,
     rotation |-> MultiplyRotation(IdentityRotation, <<rotation>>),
     scale    |-> scale]

IdentityMatrix4 == ComposeMatrixWorld(Zero3, Zero3, One3)

\* OBB.fromBox3: centre and half size of the box, identity rotation
fromBox3(b) == [center |-> b.center, halfSize |-> b.halfSize, rotation |-> IdentityRotation]

\* OBB.applyMatrix4(matrix): transforms THIS box in place: its rotation is
\* right-multiplied by the matrix's rotation, its half size multiplied by the
\* matrix's scale, the matrix's translation added to its centre
applyMatrix4(o, m) ==
    [center   |-> Add3(o.center, m.position),
     halfSize |-> Mul3(o.halfSize, m.scale),
     rotation |-> MultiplyRotation(o.rotation, m.rotation)]

----------------------------------------------------------------------------
(* The window and the camera *)

RECURSIVE GCD(_, _)
GCD(a, b) == IF b = 0 THEN a ELSE GCD(b, a % b)

\* innerWidth / innerHeight as a number: the fraction in lowest terms
Aspect(w, h) == <<w \div GCD(w, h), h \div GCD(w, h)>>

\* index.ts 81-83
createCamera == [aspect |-> Aspect(innerWidth, innerHeight)]

\* index.ts 89-94
createRenderer == [size |-> <<innerWidth, innerHeight>>]

\* the sizes of the window: widths up to the bound, two heights, so that the
\* aspect ratios 1/2, 1, 2 occur and 2/2 is reduced to 1
Widths == 1..MaxWidth
Heights == {1, 2}

----------------------------------------------------------------------------
(* The moving sphere *)

\* index.ts 185 and 187 (0 and 0.5), and the range test of line 211 (150)
InitialXPosition == 0
InitialSpeed == 1
Bound == 300
\* index.ts 73 (30), 71 and 65 (radius 1)
SphereY == 60
SphereRadius == 2

\* advance with the position held at the bound it crossed
advanceClamped(x, s) ==
    LET nx == x + s
        cx == IF nx > Bound THEN Bound ELSE IF nx < -Bound THEN -Bound ELSE nx
    IN  [xPosition |-> cx,
         speed     |-> IF nx > Bound \/ nx < -Bound THEN s * (-1) ELSE s]

\* advance with the range test made before the position is advanced
advancePreTest(x, s) ==
    [xPosition |-> x + s,
     speed     |-> IF x > Bound \/ x < -Bound THEN s * (-1) ELSE s]

\* advance with the bounds themselves counted as out of range
advanceInclusive(x, s) ==
    LET nx == x + s
    IN  [xPosition |-> nx,
         speed     |-> IF nx >= Bound \/ nx <= -Bound THEN s * (-1) ELSE s]

\* advance that always turns the body leftwards when it is out of range
advanceTurnLeft(x, s) ==
    LET nx == x + s
    IN  [xPosition |-> nx,
         speed     |-> IF nx > Bound \/ nx < -Bound THEN (IF s > 0 THEN s * (-1) ELSE s) ELSE s]

\* index.ts 210-214: the new position and speed
advance(x, s) ==
    LET nx == x + s
    IN  [xPosition |-> nx,
         speed     |-> IF nx > Bound \/ nx < -Bound THEN s * (-1) ELSE s]

----------------------------------------------------------------------------
(* The model file: its world-space bounding box at load time (Box3.setFromObject
   of the scene scaled by 50); the asset is not part of the sources, so the
   box is an input *)

ModelBoxes ==
    { [center |-> <<0, 20, 0>>, halfSize |-> <<50, 20, 50>>],
      [center |-> <<0, 61, 0>>, halfSize |-> <<10, 2, 10>>] }

\* index.ts 153-162
createOBB(modelBox) == fromBox3(modelBox)

----------------------------------------------------------------------------
(* OBB against sphere, on boxes whose rotation matrix has integer entries:
   the rotation is given by its columns <<xAxis, yAxis, zAxis>> *)

\* clamp that forgets the lower limit
clampUpperOnly(value, min, max) == IF value > max THEN max ELSE value

\* MathUtils.clamp
clamp(value, min, max) == IF value < min THEN min ELSE IF value > max THEN max ELSE value

\* OBB.clampPoint: start at the centre of the box, project the point onto each
\* axis of the box and walk that far, at most the half size, along the axis
clampPoint(o, point) ==
    LET v1 == Sub3(point, o.center)
        x  == clamp(Dot3(v1, o.basis[1]), -o.halfSize[1], o.halfSize[1])
        y  == clamp(Dot3(v1, o.basis[2]), -o.halfSize[2], o.halfSize[2])
        z  == clamp(Dot3(v1, o.basis[3]), -o.halfSize[3], o.halfSize[3])
    IN  Add3(Add3(Add3(o.center, Scale3(o.basis[1], x)), Scale3(o.basis[2], y)),
             Scale3(o.basis[3], z))

\* intersectsSphere with an open boundary
intersectsSphereOpen(o, s) ==
    DistanceToSquared(clampPoint(o, s.center), s.center) < s.radius * s.radius

\* OBB.intersectsSphere: the closest point of the box lies inside the sphere
intersectsSphere(o, s) ==
    DistanceToSquared(clampPoint(o, s.center), s.center) <= s.radius * s.radius

----------------------------------------------------------------------------
(* The scene *)

\* index.ts 64-74: the sphere and its bounding sphere
createSphere ==
    [position       |-> <<0, SphereY, 0>>,
     boundingSphere |-> [center |-> Zero3, radius |-> SphereRadius]]

\* index.ts 33-39 and 153-162: the group that owns the model, the helper drawn
\* from the box measured at load time, and the OBB made from that box; the
\* group has not been rendered yet, so its world matrix is the identity
createModelGroup(modelBox) ==
    [position    |-> Zero3,
     rotation    |-> Zero3,
     scale       |-> One3,
     matrixWorld |-> IdentityMatrix4,
     helperBox   |-> modelBox,
     obb         |-> createOBB(modelBox)]

\* index.ts 215 and 223
movedSphere(sph, x) ==
    LET position == <<x, sph.position[2], sph.position[3]>>
    IN  [position       |-> position,
         boundingSphere |-> [sph.boundingSphere EXCEPT !.center = position]]

\* rotatedGroup that turns the group about Z alone
rotatedGroupZOnly(g) ==
    [g EXCEPT !.rotation = Add3(g.rotation, <<0, 0, 1>>),
              !.obb      = applyMatrix4(g.obb, g.matrixWorld)]

\* index.ts 217-221
rotatedGroup(g) ==
    [g EXCEPT !.rotation = Add3(g.rotation, One3),
              !.obb      = applyMatrix4(g.obb, g.matrixWorld)]

\* index.ts 181: renderer.render updates the world matrices of the scene
renderedGroup(g) ==
    [g EXCEPT !.matrixWorld = ComposeMatrixWorld(g.position, g.rotation, g.scale)]

\* index.ts 178-182 and 208-230: one call of animate on the given scene
animate(sph, g) ==
    LET a == advance(xPosition, speed)
    IN  /\ xPosition' = a.xPosition
        /\ speed' = a.speed
        /\ sphere' = Some(movedSphere(sph, a.xPosition))
        /\ modelGroup' = Some(renderedGroup(rotatedGroup(g)))
        /\ ticks' = ticks + 1

SceneInit ==
    /\ pc = "script"
    /\ loader = "idle"
    /\ loadCalls = 0
    /\ consoleLog = 0
    /\ onresize = Undefined
    /\ pendingResize = FALSE
    /\ resizeError = FALSE
    /\ camera = Undefined
    /\ renderer = Undefined
    /\ xPosition = InitialXPosition
    /\ speed = InitialSpeed
    /\ sphere = Undefined
    /\ modelGroup = Undefined
    /\ ticks = 0
    /\ lastTask = "none"

\* the script has run its initialisers (index.ts 7-14, 185-202) and is about
\* to execute line 232; the window has the size it opened with
Init ==
    /\ SceneInit
    /\ innerWidth \in Widths
    /\ innerHeight \in Heights
    /\ box = Undefined
    /\ ball = Undefined
    /\ verdict = Undefined

\* Startup with the camera created only after the model has loaded
StartupCameraAfterLoad ==
    /\ pc = "script"
    /\ onresize' = Some("handleResize")
    /\ camera' = Undefined
    /\ renderer' = Some(createRenderer)
    /\ loadCalls' = loadCalls + 1
    /\ loader' = "inFlight"
    /\ pc' = "awaitLoad"
    /\ UNCHANGED <<consoleLog, innerWidth, innerHeight, pendingResize, resizeError,
                   xPosition, speed, sphere, modelGroup, ticks>>
    /\ lastTask' = "Startup"
    /\ UNCHANGED probeVars

\* index.ts 232-234, 20-30, 133-142: the handler is registered and
\* initializeScene runs up to its first await, having started the load
Startup ==
    /\ pc = "script"
    /\ onresize' = Some("handleResize")
    /\ camera' = Some(createCamera)
    /\ renderer' = Some(createRenderer)
    /\ loadCalls' = loadCalls + 1
    /\ loader' = "inFlight"
    /\ pc' = "awaitLoad"
    /\ UNCHANGED <<consoleLog, innerWidth, innerHeight, pendingResize, resizeError,
                   xPosition, speed, sphere, modelGroup, ticks>>
    /\ lastTask' = "Startup"
    /\ UNCHANGED probeVars

\* the environment resizes the window; the resize event waits for the running
\* task to finish
WindowResize ==
    /\ \E w \in Widths, h \in Heights :
          /\ <<w, h>> # <<innerWidth, innerHeight>>
          /\ innerWidth' = w
          /\ innerHeight' = h
    /\ pendingResize' = TRUE
    /\ UNCHANGED <<pc, loader, loadCalls, consoleLog, onresize, resizeError,
                   camera, renderer, xPosition, speed, sphere, modelGroup, ticks>>
    /\ UNCHANGED lastTask
    /\ UNCHANGED probeVars

\* index.ts 168-172, called by the event loop between two tasks.  The
\* statements run in order: line 169 writes camera.aspect and throws a
\* TypeError when camera is undefined, before anything is written; line 171
\* calls renderer.setSize and throws when renderer is undefined, after the
\* camera has been updated
handleResize ==
    /\ pendingResize
    /\ pc \in {"awaitLoad", "running", "rejected"}
    /\ pendingResize' = FALSE
    /\ IF ~Defined(onresize)
       THEN UNCHANGED <<camera, renderer, resizeError>>
       ELSE IF ~Defined(camera)
            THEN /\ resizeError' = TRUE
                 /\ UNCHANGED <<camera, renderer>>
            ELSE /\ camera' = Some([Get(camera) EXCEPT !.aspect = Aspect(innerWidth, innerHeight)])
                 /\ IF Defined(renderer)
                    THEN /\ renderer' = Some([Get(renderer) EXCEPT !.size = <<innerWidth, innerHeight>>])
                         /\ UNCHANGED resizeError
                    ELSE /\ resizeError' = TRUE
                         /\ UNCHANGED renderer
    /\ UNCHANGED <<pc, loader, loadCalls, consoleLog, onresize, innerWidth, innerHeight,
                   xPosition, speed, sphere, modelGroup, ticks>>
    /\ lastTask' = "handleResize"
    /\ UNCHANGED probeVars

\* index.ts 138, 144-150, 30-74, 234-235: the loader delivers the model; the
\* awaits resume one after the other in the same turn of the event loop, so
\* the rest of initializeScene and the first call of animate run before any
\* other task
LoadResolved ==
    /\ pc = "awaitLoad"
    /\ loader = "inFlight"
    /\ loader' = "loaded"
    /\ pc' = "running"
    /\ \E modelBox \in ModelBoxes : animate(createSphere, createModelGroup(modelBox))
    /\ UNCHANGED <<loadCalls, consoleLog, onresize, innerWidth, innerHeight,
                   pendingResize, resizeError, camera, renderer>>
    /\ lastTask' = "LoadResolved"
    /\ UNCHANGED probeVars

\* LoadFailed with an error callback that logs and starts the load again
LoadFailedRetry ==
    /\ pc = "awaitLoad"
    /\ loader = "inFlight"
    /\ loadCalls < 3
    /\ loadCalls' = loadCalls + 1
    /\ consoleLog' = consoleLog + 1
    /\ UNCHANGED <<pc, loader, onresize, innerWidth, innerHeight, pendingResize,
                   resizeError, camera, renderer, xPosition, speed, sphere, modelGroup,
                   ticks>>
    /\ lastTask' = "LoadFailed"
    /\ UNCHANGED probeVars

\* index.ts 140: the loader reports an error; it is logged and the promise of
\* line 135 is left pending
LoadFailed ==
    /\ pc = "awaitLoad"
    /\ loader = "inFlight"
    /\ loader' = "error"
    /\ consoleLog' = consoleLog + 1
    /\ UNCHANGED <<pc, loadCalls, onresize, innerWidth, innerHeight, pendingResize,
                   resizeError, camera, renderer, xPosition, speed, sphere, modelGroup,
                   ticks>>
    /\ lastTask' = "LoadFailed"
    /\ UNCHANGED probeVars

\* index.ts 178-182: a frame requested by the previous call of animate
AnimationFrame ==
    /\ pc = "running"
    /\ ticks < MaxTicks
    /\ animate(Get(sphere), Get(modelGroup))
    /\ UNCHANGED <<pc, loader, loadCalls, consoleLog, onresize, innerWidth, innerHeight,
                   pendingResize, resizeError, camera, renderer>>
    /\ lastTask' = "AnimationFrame"
    /\ UNCHANGED probeVars

Next ==
    \/ Startup
    \/ WindowResize
    \/ handleResize
    \/ LoadResolved
    \/ LoadFailed
    \/ AnimationFrame

Spec == Init /\ [][Next]_vars

----------------------------------------------------------------------------
(* The scene with a renderer that cannot be constructed.  The source has no
   error path for it and the specification takes constructors to be total,
   so Spec leaves it out; this second specification follows the script when
   new THREE.WebGLRenderer() throws (no WebGL context) *)

\* index.ts 232-234, 20-23: the handler is registered (line 232) and the
\* camera assigned (line 22); createRenderer throws at line 23, so renderer
\* stays undefined, the load is never started and the promise of the script
\* is rejected: no task of the script is left, the handler stays registered
StartupRendererThrows ==
    /\ pc = "script"
    /\ onresize' = Some("handleResize")
    /\ camera' = Some(createCamera)
    /\ pc' = "rejected"
    /\ UNCHANGED <<renderer, loadCalls, loader, consoleLog, innerWidth, innerHeight,
                   pendingResize, resizeError, xPosition, speed, sphere, modelGroup,
                   ticks>>
    /\ lastTask' = "StartupRendererThrows"
    /\ UNCHANGED probeVars

NextRendererFault ==
    \/ Next
    \/ StartupRendererThrows

SpecRendererFault == Init /\ [][NextRendererFault]_vars

----------------------------------------------------------------------------
(* intersectsSphere as a function: a box and a sphere are drawn, then
   classified *)

IdentityBasis == <<<<1, 0, 0>>, <<0, 1, 0>>, <<0, 0, 1>>>>
\* a quarter turn about z, and a quarter turn about x
QuarterTurnZ == <<<<0, 1, 0>>, <<-1, 0, 0>>, <<0, 0, 1>>>>
QuarterTurnX == <<<<1, 0, 0>>, <<0, 0, 1>>, <<0, -1, 0>>>>

ProbeBoxes ==
    [center   : {Zero3, <<1, 0, -2>>},
     halfSize : {<<10, 10, 10>>, <<2, 4, 6>>},
     basis    : {IdentityBasis, QuarterTurnZ, QuarterTurnX}]

ProbeSpheres ==
    [center : {0, 5, 11} \X {0, 12} \X (9..MaxCoord),
     radius : 1..MaxRadius]

InitIntersect ==
    /\ SceneInit
    /\ innerWidth = 1
    /\ innerHeight = 1
    /\ box \in ProbeBoxes
    /\ ball \in ProbeSpheres
    /\ verdict = Undefined

\* index.ts 225: the test of the frame
Classify ==
    /\ verdict = Undefined
    /\ verdict' = Some(intersectsSphere(box, ball))
    /\ UNCHANGED <<box, ball>>
    /\ UNCHANGED sceneVars

NextIntersect == Classify

SpecIntersect == InitIntersect /\ [][NextIntersect]_vars

----------------------------------------------------------------------------
(* Properties *)

OutOfRange(x) == x > Bound \/ x < -Bound
Tick == ticks' # ticks

\* C1: a frame sets the position to position + speed without clamping it, and
\* negates the speed exactly when the advanced position is above 150 or below
\* -150; so the speed of the frame after an out-of-range position has the
\* opposite sign of the speed that produced that position
C1_AdvanceStep ==
    [][Tick =>
        /\ xPosition' = xPosition + speed
        /\ speed' = (IF OutOfRange(xPosition') THEN -speed ELSE speed)
        /\ (OutOfRange(xPosition') => speed' * speed < 0)]_vars

\* C1 witness: the body has overshot the upper bound and has been turned
C1_Witness == ticks > 0 /\ xPosition = Bound + 1 /\ speed = -InitialSpeed

\* C2 as stated: a frame that starts from a position within [-150, 150]
\* leaves the speed unchanged
C2_UnchangedFromInRange ==
    [][(Tick /\ ~OutOfRange(xPosition)) => speed' = speed]_vars

\* C2 amended: a frame that starts from a position within [-150, 150] leaves
\* the speed unchanged exactly when the advanced position is within
\* [-150, 150] too; from the bound itself, moving outwards, it negates it
C2_UnchangedWhenResultInRange ==
    [][(Tick /\ ~OutOfRange(xPosition)) =>
          ((speed' = speed) <=> ~OutOfRange(xPosition'))]_vars

\* C2 witness: a frame has put the body exactly on the upper bound and has
\* kept its speed
C2_Witness == ticks > 0 /\ xPosition = Bound /\ speed = InitialSpeed

\* C3: from xPosition = 0 and speed = 0.5 the body is on the bound after 300
\* frames; the speed is not negated in the first 299 frames and has been
\* negated once frame 301 is over
C3_FirstReflection ==
    /\ (ticks <= 299 => (speed = InitialSpeed /\ xPosition = ticks * InitialSpeed))
    /\ (ticks = 300 => xPosition = Bound)
    /\ (ticks = 301 => speed = -InitialSpeed)

\* C3 witness: frame 301 is over and the body moves leftwards
C3_Witness == ticks = 301 /\ speed = -InitialSpeed /\ xPosition = Bound + 1

\* C9: |speed| stays 0.5 and the position stays within [-150.5, 150.5]; a
\* frame that starts out of range ends in range
C9_Bounce ==
    [][/\ speed' \in {InitialSpeed, -InitialSpeed}
       /\ xPosition' >= -(Bound + 1)
       /\ xPosition' <= Bound + 1
       /\ ((Tick /\ OutOfRange(xPosition)) => ~OutOfRange(xPosition'))]_vars

\* C9 witness: the body has overshot the lower bound and has been turned
C9_Witness == xPosition = -(Bound + 1) /\ speed = InitialSpeed

\* C6 as stated: the rotation that takes effect in a frame is the one rotation
\* left in rotationMatrix3, 0.001 rad about Z; X and Y contribute nothing
C6_OnlyZTakesEffect ==
    Defined(modelGroup) =>
        LET g == Get(modelGroup)
        IN  /\ g.rotation = Scale3(rotationMatrix3[1], ticks)
            /\ \A i \in 1..Len(g.obb.rotation) :
                  g.obb.rotation[i][1] = 0 /\ g.obb.rotation[i][2] = 0

\* C6 amended: of the three rotations built into rotationMatrix4 only the last
\* one, about Z, is left in it and in rotationMatrix3, but no frame applies
\* that matrix; a frame adds 0.001 rad to each of the X, Y and Z angles of
\* modelGroup, and it is the world matrix of that rotation, about all three
\* axes, that is multiplied into the box
C6_AllAxesTakeEffect ==
    /\ rotationMatrix4 = <<<<0, 0, 1>>>>
    /\ rotationMatrix3 = rotationMatrix4
    /\ Defined(modelGroup) =>
        LET g == Get(modelGroup)
        IN  /\ g.rotation = <<ticks, ticks, ticks>>
            /\ g.matrixWorld.rotation = <<g.rotation>>
            /\ \A i \in 1..Len(g.obb.rotation) :
                  /\ g.obb.rotation[i] # rotationMatrix3[1]
                  /\ g.obb.rotation[i][1] = g.obb.rotation[i][3]
                  /\ g.obb.rotation[i][2] = g.obb.rotation[i][3]

\* C6 witness: two frames have run, and the box has been turned about X, Y
\* and Z
C6_Witness ==
    /\ Defined(modelGroup)
    /\ Get(modelGroup).rotation = <<2, 2, 2>>
    /\ Get(modelGroup).obb.rotation = <<<<1, 1, 1>>>>

\* the world matrix that the frame just run read at line 221
MatrixWorldRead(g) ==
    IF ticks <= 1 THEN IdentityMatrix4
    ELSE ComposeMatrixWorld(g.position, Sub3(g.rotation, One3), g.scale)

\* C7: after every frame the box is the box made at load time transformed
\* once by the world matrix of modelGroup of that frame (the one the frame
\* read, or the one its render left)
C7_BoxDerivedFromOwner ==
    Defined(modelGroup) =>
        LET g == Get(modelGroup)
        IN  \/ g.obb = applyMatrix4(createOBB(g.helperBox), MatrixWorldRead(g))
            \/ g.obb = applyMatrix4(createOBB(g.helperBox), g.matrixWorld)

\* C8: no frame runs unless the load has succeeded; the load is started once;
\* a failed load is logged, leaves the script suspended at its await for good,
\* is not retried and is followed by no frame
C8_LoadAwaitedOnce ==
    [][/\ (Tick => loader' = "loaded")
       /\ loadCalls' <= 1
       /\ (loader' = "loaded" => loadCalls' = 1)
       /\ ((loader' = "error" /\ loader # "error") => consoleLog' = consoleLog + 1)
       /\ (loader = "error" =>
              /\ loader' = "error"
              /\ pc = "awaitLoad" /\ pc' = "awaitLoad"
              /\ consoleLog >= 1
              /\ loadCalls' = loadCalls
              /\ ticks = 0 /\ ticks' = 0)]_vars

\* C8 witness: the load has failed, the error is logged, the script waits
C8_Witness ==
    loader = "error" /\ consoleLog = 1 /\ pc = "awaitLoad" /\ loadCalls = 1 /\ ticks = 0

\* C10: whenever handleResize runs, camera and renderer exist, so it does not
\* throw; it changes neither xPosition, speed, the sphere with its bounding
\* sphere, nor the group with its box
C10_ResizeFindsCamera ==
    [][(pendingResize /\ ~pendingResize') =>
          /\ Defined(onresize)
          /\ Defined(camera)
          /\ Defined(renderer)
          /\ resizeError' = FALSE
          /\ Get(camera').aspect = Aspect(innerWidth, innerHeight)
          /\ UNCHANGED <<xPosition, speed, sphere, modelGroup>>]_vars

\* C10 witness: the load has failed and then a resize event has been
\* delivered: handleResize is the task that ran last, it found camera and
\* renderer, threw nothing and left them agreeing with the window
C10_Witness ==
    /\ lastTask = "handleResize"
    /\ loader = "error"
    /\ ~pendingResize
    /\ ~resizeError
    /\ Get(renderer).size = <<innerWidth, innerHeight>>
    /\ Get(camera).aspect = Aspect(innerWidth, innerHeight)

\* the resize handler when the renderer could not be constructed: every
\* execution of handleResize finds the camera, updates its aspect at line 169
\* and then throws at line 171, the renderer being undefined; it still
\* changes neither the body nor the scene
RendererFault_ResizeThrows ==
    [][(pendingResize /\ ~pendingResize' /\ pc = "rejected") =>
          /\ Defined(camera)
          /\ ~Defined(renderer)
          /\ Get(camera').aspect = Aspect(innerWidth, innerHeight)
          /\ renderer' = Undefined
          /\ resizeError' = TRUE
          /\ UNCHANGED <<xPosition, speed, sphere, modelGroup, ticks, loadCalls>>]_vars

\* a resize has been handled, and has thrown, after the renderer fault
RendererFault_Witness ==
    /\ pc = "rejected"
    /\ lastTask = "handleResize"
    /\ resizeError
    /\ ~pendingResize
    /\ innerWidth = 2 /\ innerHeight = 1
    /\ Get(camera).aspect = <<2, 1>>
    /\ renderer = Undefined

----------------------------------------------------------------------------
(* Properties of intersectsSphere *)

\* the points of the box o on the integer grid of its own axes
BoxPoints(o) ==
    { Add3(Add3(Add3(o.center, Scale3(o.basis[1], a)), Scale3(o.basis[2], b)),
           Scale3(o.basis[3], c)) :
        a \in (-o.halfSize[1])..o.halfSize[1],
        b \in (-o.halfSize[2])..o.halfSize[2],
        c \in (-o.halfSize[3])..o.halfSize[3] }

\* some point of the box is within distance radius of the centre of the sphere
Touches(o, s) ==
    \E p \in BoxPoints(o) : DistanceToSquared(p, s.center) <= s.radius * s.radius

\* C4: intersectsSphere is true exactly when the point of the box nearest to
\* the centre of the sphere is at squared distance <= radius^2; a sphere
\* tangent to the box intersects it
C4_ClosedBoundary ==
    Defined(verdict) => (Get(verdict) <=> Touches(box, ball))

\* C4 witness: a sphere of radius 1.5 tangent to the top face of a turned box
C4_Witness ==
    /\ verdict = Some(TRUE)
    /\ box = [center |-> Zero3, halfSize |-> <<2, 4, 6>>, basis |-> QuarterTurnZ]
    /\ ball = [center |-> <<0, 0, 9>>, radius |-> 3]

C5Box == [center |-> Zero3, halfSize |-> <<10, 10, 10>>, basis |-> IdentityBasis]

\* C5 as stated: for the axis-aligned box of half extents (5,5,5) at the
\* origin and a sphere of radius 1, no intersection at (0,0,6) and an
\* intersection at (0,0,5.5)
C5_Scenario ==
    (Defined(verdict) /\ box = C5Box /\ ball.radius = 2) =>
        /\ (ball.center = <<0, 0, 12>> => Get(verdict) = FALSE)
        /\ (ball.center = <<0, 0, 11>> => Get(verdict) = TRUE)

\* C5 amended: for that box and radius, an intersection at (0,0,6), where the
\* sphere is tangent to the face z = 5, and at (0,0,5.5); no intersection at
\* (0,0,6.5)
C5_ScenarioTangent ==
    (Defined(verdict) /\ box = C5Box /\ ball.radius = 2) =>
        /\ (ball.center = <<0, 0, 12>> => Get(verdict) = TRUE)
        /\ (ball.center = <<0, 0, 11>> => Get(verdict) = TRUE)
        /\ (ball.center = <<0, 0, 13>> => Get(verdict) = FALSE)

\* C5 witness: the sphere at (0,0,6) has been classified as intersecting
C5_Witness ==
    /\ box = C5Box
    /\ ball = [center |-> <<0, 0, 12>>, radius |-> 2]
    /\ verdict = Some(TRUE)

====
